---- MODULE Spec2Model ----
(***************************************************************************)
(* kube-local: the demo web server of src/apps/src/index.ts and the        *)
(* configuration life cycle its walkthrough describes.  A process (a pod   *)
(* of app-deployment, or a local `npm start` / `docker run`) receives its  *)
(* environment when it is created, loads config/.env once at start-up and  *)
(* reports seven variables on GET /.  The ConfigMap app-config and the     *)
(* Secret app-secret live in etcd and are changed with `kubectl apply`.    *)
(***************************************************************************)
EXTENDS Integers, FiniteSets, Sequences, TLC

\* ------------------------------------------------------------------ bounds

\* Pod slots of app-deployment that may exist at once (replicas plus the
\* pods a rolling restart has in flight).
MaxPods == 3

\* ------------------------------------------------------- program constants

\* deployment.yml, spec.replicas.
Replicas == 2

\* The seven variables the GET / handler reads.
Names ==
  {"DATABASE_URL", "CACHE_SIZE", "PAYMENT_GATEWAY_URL", "MAX_CART_ITEMS",
   "SESSION_TIMEOUT", "DB_USERNAME", "DB_PASSWORD"}

\* The literal the handler reports for a variable it does not find.
NotSet == "NOT SET"

\* cm.yml: the data of ConfigMap app-config.
CmInit ==
  [database_url        |-> "postgres://app-db:5432/shop",
   cache_size          |-> "1000",
   payment_gateway_url |-> "https://payment-gateway.example.com",
   max_cart_items      |-> "50",
   session_timeout     |-> "3600"]

\* secret.yml: the data of Secret app-secret, base64 as stored.
SecretInit ==
  [db_username |-> "YWRtaW4=",
   db_password |-> "c3VwZXJzZWNyZXQxMjM="]

\* base64 --decode on the encodings the walkthrough produces with
\* `echo -n ... | base64`; any other text decodes to nothing useful here.
Base64Decode(s) ==
  CASE s = "YWRtaW4="             -> "admin"
    [] s = "c3VwZXJzZWNyZXQxMjM=" -> "supersecret123"
    [] s = "bmV3cGFzc3dvcmQ0NTY=" -> "newpassword456"
    [] OTHER                      -> ""

\* deployment.yml, containers[0].env: where each variable comes from.
EnvRef ==
  [DATABASE_URL        |-> [kind |-> "configMapKeyRef", key |-> "database_url"],
   CACHE_SIZE          |-> [kind |-> "configMapKeyRef", key |-> "cache_size"],
   PAYMENT_GATEWAY_URL |-> [kind |-> "configMapKeyRef", key |-> "payment_gateway_url"],
   MAX_CART_ITEMS      |-> [kind |-> "configMapKeyRef", key |-> "max_cart_items"],
   SESSION_TIMEOUT     |-> [kind |-> "configMapKeyRef", key |-> "session_timeout"],
   DB_USERNAME         |-> [kind |-> "secretKeyRef",    key |-> "db_username"],
   DB_PASSWORD         |-> [kind |-> "secretKeyRef",    key |-> "db_password"]]

\* ------------------------------------------------------------------ inputs

\* An environment (or a .env file) is a function from the names it sets to
\* their values; a name outside its domain is unset (undefined in JS).
NoEnv == [n \in {} |-> ""]

\* Edits of cm.yml that `kubectl apply -f cm.yml` pushes (Phase 8, Case 1).
CmEdits == {<<"cache_size", "1000">>, <<"cache_size", "2000">>}

\* Edits of secret.yml that `kubectl apply -f secret.yml` pushes (Case 2).
SecretEdits ==
  {<<"db_password", "c3VwZXJzZWNyZXQxMjM=">>,
   <<"db_password", "bmV3cGFzc3dvcmQ0NTY=">>}

\* Environments of a process started outside the cluster: Step 1.5
\* (`npm start`), Step 2.3 (`docker run -e`), one with an empty value and
\* one that sets none of the seven variables.
LocalEnvs ==
  {[DATABASE_URL |-> "postgres://localhost/test",
    DB_USERNAME  |-> "admin",
    DB_PASSWORD  |-> "secret"],
   [DATABASE_URL |-> "postgres://localhost/mydb",
    CACHE_SIZE   |-> "500",
    DB_USERNAME  |-> "admin",
    DB_PASSWORD  |-> "supersecret"],
   [DATABASE_URL |-> "",
    CACHE_SIZE   |-> "500"],
   NoEnv}

\* Contents config/.env may have: absent or empty, or a few assignments.
EnvFiles ==
  {NoEnv,
   [CACHE_SIZE |-> "250", SESSION_TIMEOUT |-> "60", MAX_CART_ITEMS |-> ""]}

\* ------------------------------------------------------------------- state

VARIABLES
  etcd,     \* [cm, secret]: the data of app-config and app-secret
  envFile,  \* the contents of config/.env under the working directory
  procs,    \* process slot -> [status, fresh, env]
  res       \* the response the client received last

vars == <<etcd, envFile, procs, res>>

\* Slot 0 is the process run outside the cluster; 1..MaxPods are pods.
Local == 0
Pods == 1..MaxPods
Procs == {Local} \cup Pods

NoProc == [status |-> "None", fresh |-> FALSE, env |-> NoEnv]
NoResponse == [path |-> "", body |-> NoEnv]

Exists(p) == procs[p].status # "None"
Running(p) == procs[p].status = "Running"

\* -------------------------------------------------------------- operators

\* The environment the kubelet gives a new container of app-deployment:
\* every variable resolved from app-config or app-secret (decoded) as they
\* are in etcd at that moment.
Inject(e) ==
  [n \in Names |->
     IF EnvRef[n].kind = "secretKeyRef"
     THEN Base64Decode(e.secret[EnvRef[n].key])
     ELSE e.cm[EnvRef[n].key]]

\* dotenv.config({path: 'config/.env'}): every assignment of the file is
\* added to process.env unless the name is already set there.
DotenvConfig(env, file) ==
  [n \in (DOMAIN env) \cup (DOMAIN file) |->
     IF n \in DOMAIN env THEN env[n] ELSE file[n]]

\* process.env.X ?? d : only an unset name takes the default.
OrDefault_nullish(env, n, d) ==
  IF n \in DOMAIN env THEN env[n] ELSE d

\* process.env.X || d : an unset name is undefined and an empty string is
\* falsy; every other string is truthy.
OrDefault(env, n, d) ==
  IF n \in DOMAIN env /\ env[n] # "" THEN env[n] ELSE d

\* The envVars object of the GET / handler.
EnvVars(env) == [n \in Names |-> OrDefault(env, n, NotSet)]

FreshPods == {p \in Pods : Exists(p) /\ procs[p].fresh /\ procs[p].status # "Terminating"}
RunningPods == {p \in Pods : Running(p)}

\* ---------------------------------------------------------------- actions

\* An apply that also rewrites the variable in every running container.
KubectlApplyConfigMap_live(k, v) ==
  /\ etcd' = [etcd EXCEPT !.cm[k] = v]
  /\ procs' = [p \in Procs |->
                 IF p \in Pods /\ Running(p)
                 THEN [procs[p] EXCEPT !.env = Inject(etcd')]
                 ELSE procs[p]]
  /\ UNCHANGED <<envFile, res>>

\* kubectl apply -f cm.yml after an edit: the change is saved to etcd and
\* reaches no running pod.
KubectlApplyConfigMap(k, v) ==
  /\ etcd' = [etcd EXCEPT !.cm[k] = v]
  /\ UNCHANGED <<envFile, procs, res>>

\* kubectl apply -f secret.yml after an edit.
KubectlApplySecret(k, v) ==
  /\ etcd' = [etcd EXCEPT !.secret[k] = v]
  /\ UNCHANGED <<envFile, procs, res>>

\* config/.env is rewritten on disk.
WriteEnvFile(f) ==
  /\ envFile # f
  /\ envFile' = f
  /\ UNCHANGED <<etcd, procs, res>>

\* kubectl rollout restart deployment/app-deployment: every existing pod
\* is now an old pod, to be replaced.
RolloutRestart ==
  /\ \E p \in Pods : Exists(p) /\ procs[p].fresh
  /\ procs' = [p \in Procs |->
                 IF p \in Pods /\ Exists(p)
                 THEN [procs[p] EXCEPT !.fresh = FALSE]
                 ELSE procs[p]]
  /\ UNCHANGED <<etcd, envFile, res>>

\* The deployment spins up a pod while fewer than `replicas` current pods
\* exist; its environment is injected once, from etcd as it is now.
CreatePod(p) ==
  /\ p \in Pods
  /\ ~Exists(p)
  /\ \A q \in Pods : q < p => Exists(q)
  /\ Cardinality(FreshPods) < Replicas
  /\ procs' = [procs EXCEPT ![p] =
                 [status |-> "ContainerCreating", fresh |-> TRUE, env |-> Inject(etcd)]]
  /\ UNCHANGED <<etcd, envFile, res>>

\* The container starts: index.ts runs dotenv.config once and listens.
PodStart(p) ==
  /\ p \in Pods
  /\ procs[p].status = "ContainerCreating"
  /\ procs' = [procs EXCEPT ![p].status = "Running",
                            ![p].env = DotenvConfig(procs[p].env, envFile)]
  /\ UNCHANGED <<etcd, envFile, res>>

\* Rolling restart: an old pod is terminated once new pods are Ready, i.e.
\* while more than `replicas` pods are Running.
TerminateOldPod(p) ==
  /\ p \in Pods
  /\ Running(p)
  /\ ~procs[p].fresh
  /\ Cardinality(RunningPods) > Replicas
  /\ procs' = [procs EXCEPT ![p].status = "Terminating"]
  /\ UNCHANGED <<etcd, envFile, res>>

\* A terminating pod is gone.
PodRemove(p) ==
  /\ p \in Pods
  /\ procs[p].status = "Terminating"
  /\ procs' = [procs EXCEPT ![p] = NoProc]
  /\ UNCHANGED <<etcd, envFile, res>>

\* npm start / docker run with the environment e (Steps 1.5 and 2.3).
NpmStart(e) ==
  /\ ~Exists(Local)
  /\ procs' = [procs EXCEPT ![Local] =
                 [status |-> "Running", fresh |-> TRUE, env |-> DotenvConfig(e, envFile)]]
  /\ UNCHANGED <<etcd, envFile, res>>

\* The local process is stopped.
StopLocal ==
  /\ Running(Local)
  /\ procs' = [procs EXCEPT ![Local] = NoProc]
  /\ UNCHANGED <<etcd, envFile, res>>

\* app.get('/'): the page carries JSON.stringify(envVars); the object is
\* built from process.env at the time of the request.
GetRoot(p) ==
  /\ Running(p)
  /\ res' = [path |-> "/", body |-> EnvVars(procs[p].env)]
  /\ UNCHANGED <<etcd, envFile, procs>>

\* app.get('/health'): {status: 'ok', timestamp}; the clock is left out.
GetHealth(p) ==
  /\ Running(p)
  /\ res' = [path |-> "/health", body |-> [status |-> "ok"]]
  /\ UNCHANGED <<etcd, envFile, procs>>

\* ------------------------------------------------------------ specification

Init ==
  /\ etcd = [cm |-> CmInit, secret |-> SecretInit]
  /\ envFile \in EnvFiles
  /\ procs = [p \in Procs |-> NoProc]
  /\ res = NoResponse

\* The cluster: app-config, app-secret and the pods of app-deployment.
Next ==
  \/ \E e \in CmEdits : KubectlApplyConfigMap(e[1], e[2])
  \/ \E e \in SecretEdits : KubectlApplySecret(e[1], e[2])
  \/ RolloutRestart
  \/ \E p \in Pods : CreatePod(p)
  \/ \E p \in Pods : PodStart(p)
  \/ \E p \in Pods : TerminateOldPod(p)
  \/ \E p \in Pods : PodRemove(p)
  \/ \E p \in Pods : GetRoot(p)
  \/ \E p \in Pods : GetHealth(p)

Spec == Init /\ [][Next]_vars

\* The server run outside the cluster, beside its config/.env.
NextApp ==
  \/ \E f \in EnvFiles : WriteEnvFile(f)
  \/ \E e \in LocalEnvs : NpmStart(e)
  \/ StopLocal
  \/ GetRoot(Local)
  \/ GetHealth(Local)

SpecApp == Init /\ [][NextApp]_vars

\* ------------------------------------------------------------------ claims

\* C9: a process's environment is fixed when it is created.  No step (an
\* apply to app-config or app-secret, a rollout restart, a request) changes
\* the environment of a pod that exists before and after it; a pod that a
\* step creates gets the values etcd holds at that step; and every GET /
\* page shows the environment of a running pod, never values that only
\* etcd holds.
C9_EnvFixedAtCreation ==
  [][ /\ \A p \in Pods :
           Exists(p) /\ procs'[p].status # "None" => procs'[p].env = procs[p].env
      /\ \A p \in Pods :
           ~Exists(p) /\ procs'[p].status # "None" => procs'[p].env = Inject(etcd)
      /\ (res' # res /\ res'.path = "/") =>
           \E p \in Pods :
             /\ Running(p)
             /\ \A n \in Names :
                  \/ res'.body[n] = procs[p].env[n]
                  \/ procs[p].env[n] = "" /\ res'.body[n] = "NOT SET"
    ]_vars

\* C9 witness: after an apply and a rollout restart, an old pod created
\* before the apply still runs with the old cache_size, a new pod created
\* after it runs with the new one, and the last page served is the old
\* pod's.
C9_Witness ==
  \E p, q \in Pods :
    /\ Running(p) /\ Running(q)
    /\ ~procs[p].fresh /\ procs[q].fresh
    /\ etcd.cm.cache_size = "2000"
    /\ procs[p].env["CACHE_SIZE"] = "1000"
    /\ procs[q].env["CACHE_SIZE"] = "2000"
    /\ res.path = "/"
    /\ res.body["CACHE_SIZE"] = "1000"

\* C10: GET / reports, for each of the seven variables, its value in the
\* process environment when it is set and not empty and 'NOT SET' when it
\* is unset or empty, and the request leaves the environment as it was.
C10_GetRootReports ==
  [][ (res' # res /\ res'.path = "/") =>
        /\ procs' = procs
        /\ envFile' = envFile
        /\ Running(Local)
        /\ DOMAIN res'.body = Names
        /\ \A n \in Names :
             /\ (n \in DOMAIN procs[Local].env /\ procs[Local].env[n] # "")
                  => res'.body[n] = procs[Local].env[n]
             /\ (n \notin DOMAIN procs[Local].env) => res'.body[n] = "NOT SET"
             /\ (n \in DOMAIN procs[Local].env /\ procs[Local].env[n] = "")
                  => res'.body[n] = "NOT SET"
    ]_vars

\* C10 witness: the page of a process whose DATABASE_URL is the empty
\* string, whose CACHE_SIZE is 500 and whose DB_USERNAME is unset.
C10_Witness ==
  /\ Running(Local)
  /\ "DATABASE_URL" \in DOMAIN procs[Local].env
  /\ procs[Local].env["DATABASE_URL"] = ""
  /\ procs[Local].env["CACHE_SIZE"] = "500"
  /\ "DB_USERNAME" \notin DOMAIN procs[Local].env
  /\ res.path = "/"
  /\ res.body["DATABASE_URL"] = "NOT SET"
  /\ res.body["CACHE_SIZE"] = "500"
  /\ res.body["DB_USERNAME"] = "NOT SET"

====
